---------------------------- MODULE Spec2Model ----------------------------
(***************************************************************************)
(* A model of the NIFTY 50 quantitative dashboard (src/app23.py).          *)
(*                                                                         *)
(* The script is a linear Streamlit page: a password gate, a cached data   *)
(* loader, a chain of pandas/numpy column computations and the widgets     *)
(* that display their results.  The model has                              *)
(*   - the numeric helpers (floats as exact fractions with NaN and inf),   *)
(*   - the pandas primitives the script uses (pct_change, rolling,         *)
(*     cumprod, cummax, shift, dropna, quantile),                          *)
(*   - one operator per function of the script,                            *)
(*   - one specification per part of the script that is checked.           *)
(***************************************************************************)
EXTENDS Integers, Sequences, FiniteSets, TLC

VARIABLES
    \* the pure functions, one applied to arguments drawn at the start
    fn,             \* the function applied last, "init" before
    args,           \* the arguments drawn
    result,         \* the value returned, None before
    \* monte_carlo and the process-global numpy generator
    rng,            \* the state of the global generator
    first,          \* per (mu, sigma, sims): the paths its first invocation returned
    last_mc,        \* the latest invocation: its arguments, generator state before, paths
    \* load_data behind st.cache_data
    clock,          \* seconds since the process started
    ticks,          \* how often the clock has moved
    cache,          \* cache key -> the entry stored: its value and when it was stored
    fetched_at,     \* (start, end) -> when the data source was last asked for it
    last_load,      \* the latest load_data call
    \* one browser session of the page
    session_state,  \* st.session_state
    pc,             \* the statement the script run is at
    widgets,        \* the widget values of the run
    run             \* the values the run has computed so far

pureVars == <<fn, args, result>>
mcVars == <<rng, first, last_mc>>
cacheVars == <<clock, ticks, cache, fetched_at, last_load>>
sessionVars == <<session_state, pc, widgets, run>>
vars == <<pureVars, mcVars, cacheVars, sessionVars>>

None == "None"

\* The parts of the state a specification does not use stay as they start.
PureOff == fn = "off" /\ args = None /\ result = None
McOff == rng = 0 /\ first = None /\ last_mc = None
CacheOff == clock = 0 /\ ticks = 0 /\ cache = None /\ fetched_at = None /\ last_load = None
SessionOff == session_state = None /\ pc = "off" /\ widgets = None /\ run = None

(***************************************************************************)
(* Bounds of the model.                                                    *)
(***************************************************************************)
MaxRows == 5        \* longest PriceSeries drawn
MaxPrice == 3       \* prices are drawn from 1..MaxPrice
\* The script's rolling windows are 21 and 63 rows (lines 60-61).  They are
\* scaled to 2 and 3 rows; the order short < long and the rule that a window
\* needs all of its rows are kept.
VolShortWindow == 2
VolLongWindow == 3
MaxLookback == 2    \* lookbacks are drawn from 1..MaxLookback
MaxObs == 4         \* longest return stream drawn
MaxVarWindow == 3   \* rolling_var windows are drawn from 2..MaxVarWindow
\* monte_carlo draws 252 steps per path (line 104); scaled to Steps.
Steps == 3
MaxSims == 2        \* path counts are drawn from 1..MaxSims
RngMod == 8         \* the generator has RngMod states
MaxTicks == 2       \* the clock moves at most MaxTicks times

(***************************************************************************)
(* Floats.  A float is a pair <<n, d>>: the fraction n/d in lowest terms   *)
(* with d > 0, or <<0,0>> (NaN), <<1,0>> (+inf), <<-1,0>> (-inf).          *)
(* Rounding is not modelled; NaN and the division by zero rules are.       *)
(***************************************************************************)
Abs(x) == IF x < 0 THEN -x ELSE x

RECURSIVE GCD(_, _)
GCD(a, b) == IF b = 0 THEN a ELSE GCD(b, a % b)

Sign(x) == IF x > 0 THEN 1 ELSE IF x < 0 THEN -1 ELSE 0

Rat(n, d) ==
    IF d = 0 THEN <<Sign(n), 0>>
    ELSE LET g == GCD(Abs(n), Abs(d))
             s == Sign(d)
         IN  <<(s * n) \div g, (s * d) \div g>>

NaN == <<0, 0>>
Zero == <<0, 1>>
One == <<1, 1>>
Int2F(k) == <<k, 1>>

IsNaN(x) == x = NaN
IsInf(x) == x[2] = 0 /\ x[1] # 0
IsFinite(x) == x[2] # 0

FAdd(x, y) == IF IsNaN(x) \/ IsNaN(y) THEN NaN
              ELSE Rat(x[1] * y[2] + y[1] * x[2], x[2] * y[2])
FSub(x, y) == IF IsNaN(x) \/ IsNaN(y) THEN NaN
              ELSE Rat(x[1] * y[2] - y[1] * x[2], x[2] * y[2])
FMul(x, y) == IF IsNaN(x) \/ IsNaN(y) THEN NaN
              ELSE Rat(x[1] * y[1], x[2] * y[2])
FDiv(x, y) == IF IsNaN(x) \/ IsNaN(y) THEN NaN
              ELSE Rat(x[1] * y[2], x[2] * y[1])
\* Comparisons with NaN are False, as in IEEE 754.
FLt(x, y) == /\ ~IsNaN(x) /\ ~IsNaN(y)
             /\ IF IsFinite(x) /\ IsFinite(y) THEN x[1] * y[2] < y[1] * x[2]
                ELSE IF IsFinite(x) THEN y[1] > 0
                ELSE IF IsFinite(y) THEN x[1] < 0
                ELSE x[1] < y[1]
FGt(x, y) == FLt(y, x)
FLe(x, y) == ~IsNaN(x) /\ ~IsNaN(y) /\ ~FLt(y, x)
FMax(x, y) == IF FLt(x, y) THEN y ELSE x
FMin(x, y) == IF FLt(y, x) THEN y ELSE x

(***************************************************************************)
(* pandas Series primitives.  A Series is a sequence of floats.            *)
(***************************************************************************)
\* Series.pct_change(): s[i]/s[i-1] - 1, NaN in the first row.
pct_change(s) ==
    [i \in 1..Len(s) |-> IF i = 1 THEN NaN ELSE FSub(FDiv(s[i], s[i-1]), One)]

\* Series.shift(1): every value moves one row down, NaN enters at the top.
shift1(s) == [i \in 1..Len(s) |-> IF i = 1 THEN NaN ELSE s[i-1]]

RECURSIVE SumTo(_, _, _)
\* the sum of s[lo..hi]
SumTo(s, lo, hi) == IF lo > hi THEN Zero ELSE FAdd(s[hi], SumTo(s, lo, hi - 1))

\* the mean of s[lo..hi]: 0/0 = NaN for no observation
Mean(s, lo, hi) == FDiv(SumTo(s, lo, hi), Int2F(hi - lo + 1))

RECURSIVE SqDevTo(_, _, _, _)
\* the sum of (s[k] - m)^2 over lo..hi
SqDevTo(s, m, lo, hi) ==
    IF lo > hi THEN Zero
    ELSE LET e == FSub(s[hi], m) IN FAdd(FMul(e, e), SqDevTo(s, m, lo, hi - 1))

\* The sample variance (ddof = 1) of s[lo..hi]: NaN for no observation,
\* 0/0 = NaN for one.
Variance(s, lo, hi) ==
    IF hi < lo THEN NaN
    ELSE FDiv(SqDevTo(s, Mean(s, lo, hi), lo, hi), Int2F(hi - lo))

\* A rolling window ending at row i is full when it has w rows, none NaN
\* (min_periods defaults to the window).
WindowFull(s, w, i) == i >= w /\ \A k \in (i - w + 1)..i : ~IsNaN(s[k])

\* Series.rolling(w).mean()
rolling_mean(s, w) ==
    [i \in 1..Len(s) |-> IF WindowFull(s, w, i) THEN Mean(s, i - w + 1, i) ELSE NaN]

\* Series.rolling(w).std() squared: std is a square root, so the column is
\* carried as its square (the variance).
rolling_var_sq(s, w) ==
    [i \in 1..Len(s) |-> IF WindowFull(s, w, i) THEN Variance(s, i - w + 1, i) ELSE NaN]

RECURSIVE CumProdAt(_, _)
\* Series.cumprod() at row i (skipna): NaN rows give NaN and are skipped by
\* the running product.
CumProdAt(s, i) ==
    IF i = 0 THEN One
    ELSE IF IsNaN(s[i]) THEN CumProdAt(s, i - 1)
    ELSE FMul(CumProdAt(s, i - 1), s[i])

cumprod(s) == [i \in 1..Len(s) |-> IF IsNaN(s[i]) THEN NaN ELSE CumProdAt(s, i)]

RECURSIVE CumMaxAt(_, _)
\* Series.cummax() at row i (skipna); NaN while no value has been seen.
CumMaxAt(s, i) ==
    IF i = 0 THEN NaN
    ELSE LET p == CumMaxAt(s, i - 1)
         IN  IF IsNaN(s[i]) THEN p
             ELSE IF IsNaN(p) THEN s[i]
             ELSE FMax(p, s[i])

cummax(s) == [i \in 1..Len(s) |-> IF IsNaN(s[i]) THEN NaN ELSE CumMaxAt(s, i)]

\* Element-wise arithmetic of two aligned Series.
\* the growth factor without its 1 +: C5 tells it from SeriesAdd1
SeriesAdd1_Forgotten(s) == s

SeriesAdd1(s) == [i \in 1..Len(s) |-> FAdd(One, s[i])]
SeriesMul(s, t) == [i \in 1..Len(s) |-> FMul(s[i], t[i])]

(***************************************************************************)
(* DataFrames.  A DataFrame is a record of columns of one length; the      *)
(* column Row is the index (the row's position in the loaded PriceSeries). *)
(***************************************************************************)
NRows(df) == Len(df.Row)

\* the rows of s whose index is in the increasing sequence idx
Keep(s, idx) == [k \in 1..Len(idx) |-> s[idx[k]]]

RECURSIVE RowsWhere(_, _, _)
\* the increasing sequence of the rows i..n that satisfy ok[i]
RowsWhere(ok, i, n) ==
    IF i > n THEN <<>>
    ELSE IF ok[i] THEN <<i>> \o RowsWhere(ok, i + 1, n)
    ELSE RowsWhere(ok, i + 1, n)

\* Series.dropna()
dropna_series(s) ==
    Keep(s, RowsWhere([i \in 1..Len(s) |-> ~IsNaN(s[i])], 1, Len(s)))

\* DataFrame.dropna(): a row goes when any of its columns is NaN.
dropna(df) ==
    LET n == Len(df.Row)
        cols == DOMAIN df \ {"Row"}
        ok == [i \in 1..n |-> \A c \in cols : ~IsNaN(df[c][i])]
        idx == RowsWhere(ok, 1, n)
    IN  [c \in DOMAIN df |-> Keep(df[c], idx)]

\* The PriceSeries load_data returns: columns Price and Rate, no NaN.
PriceFrame(prices, rates) ==
    [Row |-> [i \in 1..Len(prices) |-> i],
     Price |-> [i \in 1..Len(prices) |-> Int2F(prices[i])],
     Rate |-> [i \in 1..Len(prices) |-> Int2F(rates[i])]]

(***************************************************************************)
(* calculate_returns (lines 55-65)                                         *)
(***************************************************************************)
\* Drawdown with the difference taken the other way round: C6 tells them apart.
Drawdown_Swapped(cum, peak) ==
    [i \in 1..Len(cum) |-> FDiv(FSub(peak[i], cum[i]), peak[i])]

Drawdown(cum, peak) ==
    [i \in 1..Len(cum) |-> FDiv(FSub(cum[i], peak[i]), peak[i])]

\* the DataFrame before the final dropna
returns_columns(data) ==
    LET Returns == pct_change(data.Price)
        Cumulative == cumprod(SeriesAdd1(Returns))
        Peak == cummax(Cumulative)
    IN  [Row |-> data.Row,
         Price |-> data.Price,
         Rate |-> data.Rate,
         Returns |-> Returns,
         Rate_Change |-> pct_change(data.Rate),
         Vol_21D_sq |-> rolling_var_sq(Returns, VolShortWindow),
         Vol_63D_sq |-> rolling_var_sq(Returns, VolLongWindow),
         Cumulative |-> Cumulative,
         Peak |-> Peak,
         Drawdown |-> Drawdown(Cumulative, Peak)]

calculate_returns(data) == dropna(returns_columns(data))

(***************************************************************************)
(* momentum_strategy (lines 67-73)                                         *)
(***************************************************************************)
\* np.where(Momentum > 0, 1, 0): NaN > 0 is False.
Signal(momentum) ==
    [i \in 1..Len(momentum) |-> IF FGt(momentum[i], Zero) THEN One ELSE Zero]

\* the strategy return without the one-row lag: C1 tells it from Strategy_Return
Strategy_Return_NoShift(signal, returns) == SeriesMul(signal, returns)

Strategy_Return(signal, returns) == SeriesMul(shift1(signal), returns)

momentum_strategy(df, lookback) ==
    LET Momentum == rolling_mean(df.Returns, lookback)
        Sig == Signal(Momentum)
    IN  [c \in DOMAIN df \cup {"Momentum", "Signal", "Strategy_Return"} |->
            IF c = "Momentum" THEN Momentum
            ELSE IF c = "Signal" THEN Sig
            ELSE IF c = "Strategy_Return" THEN Strategy_Return(Sig, df.Returns)
            ELSE df[c]]


(***************************************************************************)
(* performance_metrics (lines 75-85)                                       *)
(*                                                                         *)
(* Two of the results are not rational.  A value x that is a square root   *)
(* is carried as a Root [s, sq]: its sign s and its square sq (a float,    *)
(* NaN when x is NaN, +inf when x is infinite).  The CAGR is carried as    *)
(* the power it is computed from, [base, exp], standing for                *)
(* base ** exp - 1.                                                        *)
(***************************************************************************)
TradingDays == 252

PosInf == <<1, 0>>
RootNaN == [s |-> 0, sq |-> NaN]
RootZero == [s |-> 0, sq |-> Zero]
RootIsNaN(x) == IsNaN(x.sq)
RootIsFinite(x) == IsFinite(x.sq)

\* sqrt(v) for a variance v >= 0
Sqrt(v) == IF IsNaN(v) THEN RootNaN ELSE [s |-> Sign(v[1]), sq |-> v]
\* x * sqrt(k) for an integer k > 0
RootTimesSqrt(x, k) == IF RootIsNaN(x) THEN RootNaN
                       ELSE [s |-> x.s, sq |-> FMul(x.sq, Int2F(k))]
\* the float m divided by the root x >= 0: m/0 is +-inf, 0/0 is NaN
FloatOverRoot(m, x) ==
    IF IsNaN(m) \/ RootIsNaN(x) THEN RootNaN
    ELSE IF x.s = 0 THEN (IF m = Zero THEN RootNaN ELSE [s |-> Sign(m[1]), sq |-> PosInf])
    ELSE [s |-> Sign(m[1]) * x.s, sq |-> FDiv(FMul(m, m), x.sq)]
\* x > 0 for a root x (False for NaN)
RootPositive(x) == ~RootIsNaN(x) /\ x.s > 0

\* Series.std() of the whole series
Std(s) == Sqrt(Variance(s, 1, Len(s)))

\* returns[returns < 0]
Negative(s) ==
    Keep(s, RowsWhere([i \in 1..Len(s) |-> FLt(s[i], Zero)], 1, Len(s)))

RECURSIVE MinTo(_, _)
\* Series.min() of s[1..i]: NaN for no observation
MinTo(s, i) ==
    IF i = 0 THEN NaN
    ELSE LET m == MinTo(s, i - 1)
         IN  IF IsNaN(s[i]) THEN m ELSE IF IsNaN(m) THEN s[i] ELSE FMin(m, s[i])

\* ((1 + returns).cumprod() / (1 + returns).cumprod().cummax() - 1).min()
MaxDrawdown(r) ==
    LET growth == cumprod(SeriesAdd1(r))
        peak == cummax(growth)
    IN  MinTo([i \in 1..Len(r) |-> FSub(FDiv(growth[i], peak[i]), One)], Len(r))

\* (returns > 0).mean()
WinRate(r) ==
    FDiv(Int2F(Cardinality({i \in 1..Len(r) : FGt(r[i], Zero)})), Int2F(Len(r)))

Sortino(mean, downside) ==
    IF RootPositive(downside)
    THEN FloatOverRoot(FMul(mean, Int2F(TradingDays)), downside)
    ELSE RootZero

Sharpe(mean, std) == RootTimesSqrt(FloatOverRoot(mean, std), TradingDays)

performance_metrics(returns) ==
    LET r == dropna_series(returns)
        n == Len(r)
    IN  IF n = 0
        THEN \* 252 / len(returns) divides by zero (line 78)
             [raised |-> "ZeroDivisionError"]
        ELSE LET mean == Mean(r, 1, n)
                 std == Std(r)
                 downside == RootTimesSqrt(Std(Negative(r)), TradingDays)
             IN  [raised |-> "none",
                  cagr |-> [base |-> CumProdAt(SeriesAdd1(r), n),
                            exp |-> Rat(TradingDays, n)],
                  vol |-> RootTimesSqrt(std, TradingDays),
                  sharpe |-> Sharpe(mean, std),
                  sortino |-> Sortino(mean, downside),
                  max_dd |-> MaxDrawdown(r),
                  win_rate |-> WinRate(r)]

\* base ** exp - 1 = 0, for base >= 0 and exp > 0
CagrIsZero(c) == c.base = One

(***************************************************************************)
(* rolling_var (lines 97-99)                                               *)
(***************************************************************************)
RECURSIVE InsertSorted(_, _)
InsertSorted(v, x) ==
    IF v = <<>> THEN <<x>>
    ELSE IF FLe(x, Head(v)) THEN <<x>> \o v
    ELSE <<Head(v)>> \o InsertSorted(Tail(v), x)

RECURSIVE SortTo(_, _, _)
\* s[lo..hi] in increasing order
SortTo(s, lo, hi) ==
    IF lo > hi THEN <<>> ELSE InsertSorted(SortTo(s, lo, hi - 1), s[hi])

\* The q-quantile of the sorted values v with linear interpolation (the
\* default of rolling().quantile): position q * (n - 1) counted from 0.
Quantile(v, q) ==
    LET pos == FMul(q, Int2F(Len(v) - 1))
        lo == pos[1] \div pos[2]
        frac == FSub(pos, Int2F(lo))
    IN  IF frac = Zero THEN v[lo + 1]
        ELSE FAdd(v[lo + 1], FMul(FSub(v[lo + 2], v[lo + 1]), frac))

\* Series.rolling(w).quantile(q)
rolling_quantile(s, w, q) ==
    [i \in 1..Len(s) |->
        IF WindowFull(s, w, i) THEN Quantile(SortTo(s, i - w + 1, i), q) ELSE NaN]

\* the quantile taken at the confidence itself: C9 tells it from rolling_var
rolling_var_SameTail(returns, window, confidence) ==
    rolling_quantile(returns, window, confidence)

rolling_var(returns, window, confidence) ==
    rolling_quantile(returns, window, FSub(One, confidence))

(***************************************************************************)
(* monte_carlo (lines 101-105) and the global generator it seeds.          *)
(*                                                                         *)
(* numpy's generator is a deterministic machine: a state, a seeding rule   *)
(* and a step that yields a sample.  It is modelled as a linear            *)
(* congruential generator over 0..RngMod-1 whose standard normal sample is *)
(* one of -1, 0, 1.                                                        *)
(***************************************************************************)
Seed == 42

seed(s) == s % RngMod
RngStep(g) == (5 * g + 3) % RngMod
StandardNormal(g) == (g % 3) - 1

RECURSIVE RngAfter(_, _)
\* the generator state after k draws from state g
RngAfter(g, k) == IF k = 0 THEN g ELSE RngStep(RngAfter(g, k - 1))

\* np.random.normal(loc, scale, (rows, cols)) from state g, filled row by row
normal(g, loc, scale, rows, cols) ==
    [p \in 1..rows |-> [t \in 1..cols |->
        FAdd(loc, FMul(scale, Int2F(StandardNormal(RngAfter(g, (p - 1) * cols + t)))))]]

RECURSIVE ProdTo(_, _)
\* np.cumprod at position i: the plain product, NaN propagates
ProdTo(s, i) == IF i = 0 THEN One ELSE FMul(ProdTo(s, i - 1), s[i])

\* 100 * np.cumprod(1 + sims_data, axis=1)
Compound(sims_data) ==
    [p \in 1..Len(sims_data) |-> [t \in 1..Len(sims_data[p]) |->
        FMul(Int2F(100), ProdTo(SeriesAdd1(sims_data[p]), t))]]

\* monte_carlo without its np.random.seed(42): C8 tells it from monte_carlo
monte_carlo_Unseeded(g, mu, sigma, sims) ==
    [paths |-> Compound(normal(g, mu, FMul(sigma, Int2F(3)), sims, Steps)),
     rng |-> RngAfter(g, sims * Steps)]

\* g is the state of the global generator when the function is entered.
\* The result is the path matrix and the state the generator is left in.
monte_carlo(g, mu, sigma, sims) ==
    LET g0 == seed(Seed)
    IN  [paths |-> Compound(normal(g0, mu, FMul(sigma, Int2F(3)), sims, Steps)),
         rng |-> RngAfter(g0, sims * Steps)]

(***************************************************************************)
(* load_data behind @st.cache_data(ttl=3600) (lines 46-53).                *)
(*                                                                         *)
(* The decorator keeps one entry per value of the arguments; an entry      *)
(* stored at time t is served until t + ttl and is gone from then on (its  *)
(* age counts from the store, not from the latest call).  The body runs,   *)
(* asking the data source, only when no live entry is found.               *)
(***************************************************************************)
TTL == 3600

\* a key that leaves the end date out: C7 tells it from CacheKey
CacheKey_StartOnly(start, end) == <<start, start>>

CacheKey(start, end) == <<start, end>>

NoEntry == [stored |-> FALSE, at |-> 0, value |-> None]

Live(entry, now) == entry.stored /\ now - entry.at < TTL

\* load_data(start, end) at time now, when the data source would answer v:
\* the value returned, whether the source was asked, and the cache after.
load_data(c, now, start, end, v) ==
    LET k == CacheKey(start, end)
    IN  IF Live(c[k], now)
        THEN [value |-> c[k].value, fetched |-> FALSE, cache |-> c]
        ELSE [value |-> v, fetched |-> TRUE,
              cache |-> [c EXCEPT ![k] = [stored |-> TRUE, at |-> now, value |-> v]]]

(***************************************************************************)
(* authenticate (lines 25-41)                                              *)
(***************************************************************************)
Secret == "quant123"

Authenticated(ss) == "authenticated" \in DOMAIN ss /\ ss.authenticated

\* authenticate without its st.stop(): C10 tells it from authenticate (below)
authenticate_NoStop(ss, w) ==
    LET ss1 == IF "authenticated" \in DOMAIN ss THEN ss ELSE [authenticated |-> FALSE]
    IN  IF ~ss1.authenticated
        THEN IF w.login /\ w.password = Secret
             THEN [session_state |-> [authenticated |-> TRUE], then |-> "rerun"]
             ELSE [session_state |-> ss1, then |-> "continue"]
        ELSE [session_state |-> ss1, then |-> "continue"]

\* authenticate() on session state ss with the widget values w: the session
\* state it leaves and how the run goes on: "continue" past the call, "rerun"
\* (st.experimental_rerun) or "stop" (st.stop).
authenticate(ss, w) ==
    LET ss1 == IF "authenticated" \in DOMAIN ss THEN ss ELSE [authenticated |-> FALSE]
    IN  IF ~ss1.authenticated
        THEN IF w.login
             THEN IF w.password = Secret
                  THEN [session_state |-> [authenticated |-> TRUE], then |-> "rerun"]
                  ELSE [session_state |-> ss1, then |-> "stop"]
             ELSE [session_state |-> ss1, then |-> "stop"]
        ELSE [session_state |-> ss1, then |-> "continue"]

(***************************************************************************)
(* Inputs                                                                  *)
(***************************************************************************)
Prices == 1..MaxPrice

SeqsUpTo(S, n) == UNION {[1..k -> S] : k \in 0..n}

\* Two shapes of the reference-rate series: flat and rising.
RateSeries(n) == {[i \in 1..n |-> 2], [i \in 1..n |-> i]}

PriceSeries ==
    {PriceFrame(p, r) : <<p, r>> \in
        UNION {{<<p, r>> : r \in RateSeries(Len(p))} : p \in SeqsUpTo(Prices, MaxRows)}}

Lookbacks == 1..MaxLookback

\* Return streams: a loss of a half, no move, a gain of a half, or missing.
ReturnValues == {Rat(-1, 2), Zero, Rat(1, 2), NaN}

ReturnStreams == SeqsUpTo(ReturnValues, MaxObs)

VarWindows == 2..MaxVarWindow
\* confidence levels, the slider's 0.90, 0.95 and 0.99 among them
Confidences == {Rat(50, 100), Rat(90, 100), Rat(95, 100), Rat(99, 100)}
\* the values the VaR Confidence slider is set to (line 117)
SliderConfidences == {Rat(90, 100), Rat(95, 100), Rat(99, 100)}

MuValues == {Zero, Rat(1, 2)}
SigmaValues == {Rat(1, 6)}
\* start and end dates, and the answers the data source may give
Dates == {1, 2}
DateRanges == {k \in Dates \X Dates : k[1] <= k[2]}
SourceAnswers == {"observations", "revised observations"}
\* the clock moves by a second or by a second less than the ttl
ClockSteps == {1, TTL - 1}

Passwords == {Secret, "letmein", ""}
Strategies == {"Momentum", "Buy & Hold"}
\* what the data source gives a session: prices of 1 or 2, a flat rate
SessionSeries ==
    {PriceFrame(p, [i \in 1..Len(p) |-> 2]) : p \in SeqsUpTo({1, 2}, MaxRows)}
\* the window of the dashboard's rolling VaR, 60 rows at line 186, scaled
RiskWindow == MaxVarWindow

McArgs == [mu : MuValues, sigma : SigmaValues, sims : 1..MaxSims]

(***************************************************************************)
(* SpecCalc: calculate_returns and momentum_strategy on every PriceSeries  *)
(* of the bounds.                                                          *)
(***************************************************************************)
InitCalc ==
    /\ McOff /\ CacheOff /\ SessionOff
    /\ fn = "init"
    /\ args \in [data : PriceSeries, lookback : Lookbacks]
    /\ result = None

CalcReturns ==
    /\ fn = "init"
    /\ fn' = "calculate_returns"
    /\ result' = calculate_returns(args.data)
    /\ UNCHANGED <<args, mcVars, cacheVars, sessionVars>>

CalcMomentum ==
    /\ fn = "calculate_returns"
    /\ fn' = "momentum_strategy"
    /\ result' = momentum_strategy(result, args.lookback)
    /\ UNCHANGED <<args, mcVars, cacheVars, sessionVars>>

NextCalc == CalcReturns \/ CalcMomentum

SpecCalc == InitCalc /\ [][NextCalc]_vars

(***************************************************************************)
(* SpecMetrics: performance_metrics on every return stream of the bounds.  *)
(***************************************************************************)
InitMetrics ==
    /\ McOff /\ CacheOff /\ SessionOff
    /\ fn = "init"
    /\ args \in [returns : ReturnStreams]
    /\ result = None

CalcMetrics ==
    /\ fn = "init"
    /\ fn' = "performance_metrics"
    /\ result' = performance_metrics(args.returns)
    /\ UNCHANGED <<args, mcVars, cacheVars, sessionVars>>

NextMetrics == CalcMetrics

SpecMetrics == InitMetrics /\ [][NextMetrics]_vars

(***************************************************************************)
(* Properties of performance_metrics (SpecMetrics)                         *)
(***************************************************************************)
ZeroStream(s) == Len(s) > 0 /\ \A i \in 1..Len(s) : s[i] = Zero

\* C2: on a non-empty stream of zero returns performance_metrics returns
\* CAGR 0, volatility 0, max drawdown 0, win rate 0, and a Sharpe and a
\* Sortino that are finite numbers, not NaN or an infinity.
C2_ZeroStreamMetrics ==
    (fn = "performance_metrics" /\ ZeroStream(args.returns)) =>
        /\ result.raised = "none"
        /\ CagrIsZero(result.cagr)
        /\ result.vol = RootZero
        /\ result.max_dd = Zero
        /\ result.win_rate = Zero
        /\ RootIsFinite(result.sharpe)
        /\ RootIsFinite(result.sortino)

\* C3: on a stream with no observation left after dropna the CAGR exponent
\* 252/n is not evaluated: no division by zero error comes out.
C3_EmptyStreamGuarded ==
    (fn = "performance_metrics" /\ Len(dropna_series(args.returns)) = 0) =>
        result.raised # "ZeroDivisionError"

(***************************************************************************)
(* SpecVar: rolling_var on one return stream and window at several         *)
(* confidence levels.  result maps each confidence applied so far to the   *)
(* series returned.                                                        *)
(***************************************************************************)
InitVar ==
    /\ McOff /\ CacheOff /\ SessionOff
    /\ fn = "init"
    /\ args \in [returns : ReturnStreams, window : VarWindows]
    /\ result = <<>>

CalcVaR(c) ==
    /\ c \notin DOMAIN result
    /\ fn' = "rolling_var"
    /\ result' = result @@ (c :> rolling_var(args.returns, args.window, c))
    /\ UNCHANGED <<args, mcVars, cacheVars, sessionVars>>

NextVar == \E c \in Confidences : CalcVaR(c)

SpecVar == InitVar /\ [][NextVar]_vars

\* C9: at every row with a full trailing window, the VaR at a higher
\* confidence is <= the VaR at a lower confidence, for the same returns and
\* window.
C9_VarMonotonic ==
    \A c1 \in DOMAIN result : \A c2 \in DOMAIN result :
        FLt(c1, c2) =>
            \A i \in 1..Len(args.returns) :
                WindowFull(args.returns, args.window, i) =>
                    FLe(result[c2][i], result[c1][i])

\* Two confidences applied, and a full-window row where the higher one gives
\* a strictly lower VaR.
C9_Witness ==
    \E c1 \in DOMAIN result : \E c2 \in DOMAIN result :
        /\ FLt(c1, c2)
        /\ \E i \in 1..Len(args.returns) :
              /\ WindowFull(args.returns, args.window, i)
              /\ FLt(result[c2][i], result[c1][i])

(***************************************************************************)
(* SpecMC: invocations of monte_carlo, with other draws from the global    *)
(* generator in between, from any generator state.                         *)
(***************************************************************************)
InitMC ==
    /\ PureOff /\ CacheOff /\ SessionOff
    /\ rng \in 0..(RngMod - 1)
    /\ first = [a \in McArgs |-> {}]
    /\ last_mc = [called |-> FALSE, repeat |-> FALSE]

MonteCarlo(a) ==
    LET r == monte_carlo(rng, a.mu, a.sigma, a.sims)
    IN  /\ rng' = r.rng
        /\ first' = IF first[a] = {} THEN [first EXCEPT ![a] = {r.paths}] ELSE first
        /\ last_mc' = [called |-> TRUE, repeat |-> first[a] # {}, args |-> a, before |-> rng, paths |-> r.paths]
        /\ UNCHANGED <<pureVars, cacheVars, sessionVars>>

\* any other user of np.random draws one sample
OtherDraw ==
    /\ rng' = RngStep(rng)
    /\ UNCHANGED <<first, last_mc, pureVars, cacheVars, sessionVars>>

NextMC == (\E a \in McArgs : MonteCarlo(a)) \/ OtherDraw

SpecMC == InitMC /\ [][NextMC]_vars

\* C8: every invocation of monte_carlo returns the path matrix the first
\* invocation with the same (mu, sigma, sims) returned.
C8_MonteCarloDeterministic ==
    \A a \in McArgs :
        /\ Cardinality(first[a]) <= 1
        /\ (last_mc.called /\ last_mc.args = a) => last_mc.paths \in first[a]

\* A repeated invocation, entered with the generator in another state than
\* the seeded one, after monte_carlo also ran with other arguments, that
\* returned paths that move.
C8_Witness ==
    /\ last_mc.called
    /\ last_mc.repeat
    /\ last_mc.before # seed(Seed)
    /\ \E a \in McArgs : a # last_mc.args /\ first[a] # {}
    /\ last_mc.paths[1][1] # last_mc.paths[1][Steps]

(***************************************************************************)
(* SpecCache: calls of load_data as time passes.  fetched_at records, per  *)
(* (start, end), when the data source was last asked for it, when          *)
(* load_data was last called with it and what that call returned: what an  *)
(* observer of the calls and of the data source sees.                      *)
(***************************************************************************)
Never == 0 - 1

InitCache ==
    /\ PureOff /\ McOff /\ SessionOff
    /\ clock = 0
    /\ ticks = 0
    /\ cache = [k \in DateRanges |-> NoEntry]
    /\ fetched_at = [k \in DateRanges |-> [fetch |-> Never, call |-> Never, value |-> None]]
    /\ last_load = [called |-> FALSE]

Tick(d) ==
    /\ ticks < MaxTicks
    /\ ticks' = ticks + 1
    /\ clock' = clock + d
    /\ UNCHANGED <<cache, fetched_at, last_load, pureVars, mcVars, sessionVars>>

LoadData(start, end, v) ==
    LET r == load_data(cache, clock, start, end, v)
        seen == fetched_at[<<start, end>>]
    IN  /\ cache' = r.cache
        /\ fetched_at' = [fetched_at EXCEPT ![<<start, end>>] =
                            [fetch |-> IF r.fetched THEN clock ELSE seen.fetch,
                             call |-> clock,
                             value |-> r.value]]
        /\ last_load' = [called |-> TRUE, range |-> <<start, end>>,
                         fetched |-> r.fetched, value |-> r.value]
        /\ UNCHANGED <<clock, ticks, pureVars, mcVars, sessionVars>>

NextCache ==
    \/ \E d \in ClockSteps : Tick(d)
    \/ \E k \in DateRanges : \E v \in SourceAnswers : LoadData(k[1], k[2], v)

SpecCache == InitCache /\ [][NextCache]_vars

\* A step is a call of load_data when the clock stands still; the call's
\* arguments and outcome are in last_load', what was seen before in fetched_at.
IsLoad == ticks' = ticks /\ last_load'.called
SeenBefore == fetched_at[last_load'.range]

\* C7 (as claimed): a call with the (start, end) of an earlier call made
\* less than ttl seconds before returns the earlier result and does not ask
\* the data source.
C7_RecentCallServed ==
    [][(/\ IsLoad
        /\ SeenBefore.call # Never
        /\ clock - SeenBefore.call < TTL) =>
            (~last_load'.fetched /\ last_load'.value = SeenBefore.value)]_vars

\* C7 (amended): a call with the (start, end) of an earlier call that asked
\* the data source less than ttl seconds before returns that result and does
\* not ask again; a call whose (start, end) was never asked for does ask;
\* and a call more than ttl seconds after the data source was last asked for
\* its (start, end) asks again.
C7_FreshEntryServed ==
    [][IsLoad =>
        /\ (SeenBefore.fetch # Never /\ clock - SeenBefore.fetch < TTL)
              => (~last_load'.fetched /\ last_load'.value = SeenBefore.value)
        /\ SeenBefore.fetch = Never => last_load'.fetched
        /\ (SeenBefore.fetch # Never /\ clock - SeenBefore.fetch > TTL)
              => last_load'.fetched]_vars

\* A call just served from an entry one second short of the ttl, while an
\* entry for another (start, end) exists.
C7_Witness ==
    /\ last_load.called
    /\ ~last_load.fetched
    /\ fetched_at[last_load.range].call = clock
    /\ clock - fetched_at[last_load.range].fetch = TTL - 1
    /\ \E k \in DateRanges : k # last_load.range /\ cache[k].stored

(***************************************************************************)
(* Spec: one browser session.  Every event (the first load, a widget       *)
(* change, a click) runs the script from the top; a run goes statement by  *)
(* statement until it ends, is stopped, or an exception ends it.           *)
(***************************************************************************)
NewRun == [outcome |-> "running", data |-> None, table |-> None,
           strat_returns |-> None, perf |-> None, var |-> None]

Init ==
    /\ PureOff /\ McOff /\ CacheOff
    /\ session_state = <<>>
    /\ pc = "idle"
    /\ widgets = [password |-> "", login |-> FALSE]
    /\ run = [NewRun EXCEPT !.outcome = "none"]

\* An event starts a run.  The first run of a session has the widgets'
\* defaults; later the password field holds what was typed and the button
\* is True in the run its click started.
StartRun(pw, click) ==
    /\ pc = "idle"
    /\ session_state = <<>> => (pw = "" /\ click = FALSE)
    /\ pc' = "authenticate"
    /\ widgets' = [password |-> pw, login |-> click]
    /\ run' = NewRun
    /\ UNCHANGED <<session_state, pureVars, mcVars, cacheVars>>

\* line 41
Authenticate ==
    /\ pc = "authenticate"
    /\ LET r == authenticate(session_state, widgets)
       IN  /\ session_state' = r.session_state
           /\ pc' = CASE r.then = "continue" -> "sidebar"
                      [] r.then = "rerun" -> "authenticate"
                      [] r.then = "stop" -> "idle"
           /\ widgets' = IF r.then = "rerun" THEN [widgets EXCEPT !.login = FALSE]
                         ELSE widgets
           /\ run' = IF r.then = "stop" THEN [run EXCEPT !.outcome = "stopped"] ELSE run
    /\ UNCHANGED <<pureVars, mcVars, cacheVars>>

\* lines 110-118
Sidebar(strategy, lookback, confidence, mc_sims) ==
    /\ pc = "sidebar"
    /\ pc' = "load_data"
    /\ widgets' = [password |-> widgets.password, login |-> widgets.login,
                   strategy |-> strategy, lookback |-> lookback,
                   confidence |-> confidence, mc_sims |-> mc_sims]
    /\ UNCHANGED <<session_state, run, pureVars, mcVars, cacheVars>>

\* line 125: whatever the cache or the data source gives for the range
Load(data) ==
    /\ pc = "load_data"
    /\ pc' = "calculate_returns"
    /\ run' = [run EXCEPT !.data = data]
    /\ UNCHANGED <<session_state, widgets, pureVars, mcVars, cacheVars>>

\* line 126
Returns ==
    /\ pc = "calculate_returns"
    /\ pc' = "strategy"
    /\ run' = [run EXCEPT !.table = calculate_returns(run.data)]
    /\ UNCHANGED <<session_state, widgets, pureVars, mcVars, cacheVars>>

\* lines 128-132
Strategy ==
    /\ pc = "strategy"
    /\ pc' = "market_overview"
    /\ run' = IF widgets.strategy = "Momentum"
              THEN LET d == momentum_strategy(run.table, widgets.lookback)
                   IN  [run EXCEPT !.table = d, !.strat_returns = d.Strategy_Return]
              ELSE [run EXCEPT !.strat_returns = run.table.Returns]
    /\ UNCHANGED <<session_state, widgets, pureVars, mcVars, cacheVars>>

\* lines 139-143: .iloc[-1] of an empty column raises IndexError
MarketOverview ==
    /\ pc = "market_overview"
    /\ IF NRows(run.table) = 0
       THEN pc' = "idle" /\ run' = [run EXCEPT !.outcome = "IndexError"]
       ELSE pc' = "performance" /\ UNCHANGED run
    /\ UNCHANGED <<session_state, widgets, pureVars, mcVars, cacheVars>>

\* lines 150-151
Performance ==
    /\ pc = "performance"
    /\ LET m == performance_metrics(run.strat_returns)
           b == performance_metrics(run.table.Returns)
       IN  IF m.raised # "none"
           THEN pc' = "idle" /\ run' = [run EXCEPT !.outcome = m.raised]
           ELSE IF b.raised # "none"
           THEN pc' = "idle" /\ run' = [run EXCEPT !.outcome = b.raised]
           ELSE pc' = "alpha_beta" /\ run' = [run EXCEPT !.perf = m]
    /\ UNCHANGED <<session_state, widgets, pureVars, mcVars, cacheVars>>

\* lines 153-179: the regression and the equity curve are only displayed
AlphaBeta ==
    /\ pc = "alpha_beta"
    /\ pc' = "risk"
    /\ UNCHANGED <<session_state, widgets, run, pureVars, mcVars, cacheVars>>

\* lines 186-193
Risk ==
    /\ pc = "risk"
    /\ pc' = "monte_carlo"
    /\ run' = [run EXCEPT !.var = rolling_var(run.table.Returns, RiskWindow,
                                              widgets.confidence)]
    /\ UNCHANGED <<session_state, widgets, pureVars, mcVars, cacheVars>>

\* lines 198-213: the paths are only plotted; the footer ends the run
Simulate ==
    /\ pc = "monte_carlo"
    /\ pc' = "idle"
    /\ run' = [run EXCEPT !.outcome = "done"]
    /\ UNCHANGED <<session_state, widgets, pureVars, mcVars, cacheVars>>

Next ==
    \/ \E pw \in Passwords : \E click \in BOOLEAN : StartRun(pw, click)
    \/ Authenticate
    \/ \E st \in Strategies : \E lb \in Lookbacks : \E c \in SliderConfidences :
          \E n \in 1..MaxSims : Sidebar(st, lb, c, n)
    \/ \E data \in SessionSeries : Load(data)
    \/ Returns
    \/ Strategy
    \/ MarketOverview
    \/ Performance
    \/ AlphaBeta
    \/ Risk
    \/ Simulate

Spec == Init /\ [][Next]_vars

PastLogin == {"sidebar", "load_data", "calculate_returns", "strategy",
              "market_overview", "performance", "alpha_beta", "risk", "monte_carlo"}

\* C10: no statement after authenticate() runs while the session is not
\* authenticated; the flag becomes True only in a run started by a Login
\* click with the configured password; a Login click with another password
\* leaves the flag False and stops the run.
C10_GateHolds ==
    /\ [](pc \in PastLogin => Authenticated(session_state))
    /\ [][(~Authenticated(session_state) /\ Authenticated(session_state')) =>
            (pc = "authenticate" /\ widgets.login /\ widgets.password = Secret)]_vars
    /\ [][(/\ pc = "authenticate"
           /\ ~Authenticated(session_state)
           /\ widgets.login
           /\ widgets.password # Secret) =>
            (/\ ~Authenticated(session_state')
             /\ pc' = "idle"
             /\ run'.outcome = "stopped")]_vars

\* A logged-in session whose run, started with the configured password typed,
\* went through every statement after authenticate() to the end of the page.
C10_Witness ==
    /\ Authenticated(session_state)
    /\ run.outcome = "done"
    /\ widgets.password = Secret

\* C4: a run whose loaded PriceSeries has too few rows to leave a row in
\* the ReturnsTable ends as a complete run, not in an exception.
C4_ShortSeriesRunCompletes ==
    (run.outcome \in {"done", "IndexError", "ZeroDivisionError"}
        /\ NRows(run.data) <= VolLongWindow) => run.outcome = "done"

(***************************************************************************)
(* Properties of calculate_returns and momentum_strategy (SpecCalc)        *)
(***************************************************************************)
\* C1: in every table momentum_strategy returns, the strategy return of row
\* i >= 1 (0-based) is the Signal of the row before times the Returns of row
\* i, and the first row, which has no row before it, is NaN.
C1_NoLookAhead ==
    fn = "momentum_strategy" =>
        /\ \A i \in 2..NRows(result) :
              result.Strategy_Return[i] = FMul(result.Signal[i-1], result.Returns[i])
        /\ NRows(result) >= 1 => IsNaN(result.Strategy_Return[1])

\* A table where the lag matters: the position of a row differs from the
\* position of the row before it, on a non-zero return.
C1_Witness ==
    /\ fn = "momentum_strategy"
    /\ \E i \in 2..NRows(result) :
          /\ result.Signal[i-1] = One
          /\ result.Signal[i] = Zero
          /\ result.Returns[i] # Zero
          /\ result.Strategy_Return[i] = result.Returns[i]

\* C5 (as claimed): the Cumulative value of retained row k is the product
\* of (1 + Returns) over the retained rows up to k only.
C5_SeededAtFirstRetained ==
    fn = "calculate_returns" =>
        \A k \in 1..NRows(result) :
            result.Cumulative[k] = CumProdAt(SeriesAdd1(result.Returns), k)

\* C5 (amended): the Cumulative value of a retained row is the product of
\* (1 + Returns) over every loaded row up to it, rows later dropped
\* included: the row's price over the price of the first loaded row.
C5_SeededAtFirstLoaded ==
    fn = "calculate_returns" =>
        \A k \in 1..NRows(result) :
            result.Cumulative[k] = FDiv(result.Price[k], args.data.Price[1])

\* A returned table whose dropped rows moved the price.
C5_Witness ==
    /\ fn = "calculate_returns"
    /\ NRows(result) >= 2
    /\ result.Row[1] > 1
    /\ args.data.Price[result.Row[1] - 1] # args.data.Price[1]
    /\ result.Cumulative[2] # result.Cumulative[1]

\* C6: in the table calculate_returns returns, every Drawdown is <= 0, and
\* it is 0 on every row whose Cumulative equals its Peak.
C6_DrawdownNonPositive ==
    fn = "calculate_returns" =>
        \A t \in 1..NRows(result) :
            /\ FLe(result.Drawdown[t], Zero)
            /\ result.Cumulative[t] = result.Peak[t] => result.Drawdown[t] = Zero

\* A returned table with a row below its peak and a later row at a new peak.
C6_Witness ==
    /\ fn = "calculate_returns"
    /\ \E t \in 1..NRows(result) : \E u \in 1..NRows(result) :
          /\ t < u
          /\ FLt(result.Drawdown[t], Zero)
          /\ result.Drawdown[u] = Zero
          /\ FLt(result.Peak[t], result.Peak[u])

=============================================================================
